---- MODULE Spec2Model ----
(***************************************************************************)
(* State-machine model of the notebook 3-preliminary-modelling.ipynb: the  *)
(* cells run top to bottom (load, sparsify, binarize, baseline, grid       *)
(* search with train/test scoring, weight display); a cell that raises     *)
(* stops the run.  Numbers that are floats in the program are modelled by  *)
(* exact integers or by <<numerator, denominator>> pairs.  The linear      *)
(* solver (liblinear) is an oracle `learner`: its fold scores, convergence *)
(* and fitted weights are inputs of the run, a function of the training    *)
(* data and of the pseudo-random seed.                                     *)
(***************************************************************************)
EXTENDS Integers, Sequences, FiniteSets, TLC

\* ------------------------------------------------------------------ bounds
MaxRows == 3      \* rows of every loaded table and label vector
MaxCols == 2      \* feature columns of the small tables
MaxNnz == 2       \* non-zero cells of an enumerated small table
NWorkers == 2     \* most CPUs the machine offers to n_jobs=-1
NFolds == 2       \* cross-validation folds (GridSearchCV's default cv)
MaxHi == 2        \* most grid points of the higher score level
MaxRuns == 2      \* runs of the notebook on the same artifacts
WideCols == 31    \* feature columns of the wide table (more than head(30))

\* ------------------------------------------------------- program constants
HeadN == 30

FileNames == {"train", "test", "train_severity", "test_severity"}
LabelColumn == "cm_highestinjury"
FatalLabel == "Fatal"
LabelValues == {"Fatal", "fatal", "Fatal ", "Minor"}

\* Feature names (the table's column labels), all distinct: the 30 of the
\* displayed weight table and four more terms.
Vocabulary ==
  << "witnesses", "witness", "fatally", "wreckage", "likely", "would",
     "consistent", "airframe", "fatal", "radar", "detected", "impact",
     "autopsy", "medical", "spin", "toxicology", "evidence", "uncontrolled",
     "postcrash", "accident", "toxicological", "two", "angle", "scar",
     "adequately", "investigation", "make_Royse", "make_Saloff", "make_Dix",
     "site", "engine", "runway", "pilot", "fuel" >>

\* ------------------------------------------------------------------- state
VARIABLES
  disk,            \* the four pickled artifacts under ./data
  learner,         \* the solver's outcomes on these artifacts
  cpus,            \* the workers n_jobs=-1 gets
  run,             \* the number of this run of the notebook
  prev,            \* what the previous run used and reported
  pc,              \* the cell (or the step of the cell) to execute next
  error,           \* the exception that stopped the run, and its cell
  seed,            \* the pseudo-random seed of this run
  X_train_tfidf, X_test_tfidf, y_train, y_test,
  X_train_sparse, X_test_sparse,
  next_task,       \* the next grid point to dispatch
  running,         \* the grid points being evaluated
  cv_results_,     \* the evaluated grid points, by position in the grid
  first_done,      \* the grid point whose evaluation finished first
  logreg_grid,     \* best_index_ and best_estimator_ once fitted
  warned,          \* the grid points that raised a ConvergenceWarning
  out              \* what the run has printed and displayed, in order

inputVars == <<disk, learner, cpus>>
dataVars == <<X_train_tfidf, X_test_tfidf, y_train, y_test>>
sparseVars == <<X_train_sparse, X_test_sparse>>
gridVars == <<next_task, running, cv_results_, first_done, logreg_grid, warned>>
vars == <<inputVars, run, prev, pc, error, seed, dataVars, sparseVars, gridVars, out>>

\* ----------------------------------------------------------------- helpers
Range(s) == {s[i] : i \in DOMAIN s}

RECURSIVE SumSeq(_)
SumSeq(s) == IF s = <<>> THEN 0 ELSE Head(s) + SumSeq(Tail(s))

SetMin(S) == CHOOSE x \in S : \A y \in S : x <= y

Count(s, v) == Cardinality({i \in DOMAIN s : s[i] = v})

\* ------------------------------------------------- cell 42f0b231: the grid
\* C is held in hundredths: 0.01, 0.1, 1, 10, 100.
logreg_params == [penalty |-> <<"l1", "l2">>, C |-> <<1, 10, 100, 1000, 10000>>]

\* The grid in evaluation order: keys sorted (C, then penalty), the last key
\* varying fastest.
ParameterGrid ==
  LET np == Len(logreg_params.penalty)
      n == Len(logreg_params.C) * np
  IN [i \in 1..n |-> [C |-> logreg_params.C[((i - 1) \div np) + 1],
                      penalty |-> logreg_params.penalty[((i - 1) % np) + 1]]]

NGrid == Len(ParameterGrid)
Cands == 1..NGrid


\* ----------------------------------------------- the tabular data (pandas)
\* A feature table: column labels, rows of cell values, and the dtype of its
\* columns ("object" stands for a table holding non-numeric cells).
DataFrame(cols, vals, dt) == [columns |-> cols, values |-> vals, dtype |-> dt]

NRowsOf(df) == Len(df.values)
NColsOf(df) == Len(df.columns)
ColumnNames(n) == SubSeq(Vocabulary, 1, n)

\* The ascending sequence of a finite set of integers.
RECURSIVE SortedSeq(_)
SortedSeq(S) ==
  IF S = {} THEN <<>> ELSE LET m == SetMin(S) IN <<m>> \o SortedSeq(S \ {m})

RECURSIVE Concat(_)
Concat(ss) == IF ss = <<>> THEN <<>> ELSE Head(ss) \o Concat(Tail(ss))

\* ------------------------------------------- cell 4699ff20: the sparsifier
\* astype(pd.SparseDtype("float64", 0)) raises on a cell that is no number.
CanSparsify(df) == df.dtype # "object"

\* One column as a SparseArray with fill value 0: the positions of the cells
\* that differ from the fill value, ascending, and their values.
SparseArray(df, c) ==
  LET idx == SortedSeq({r \in 1..NRowsOf(df) : df.values[r][c] # 0})
  IN [sp_index |-> idx,
      sp_values |-> [k \in 1..Len(idx) |-> df.values[idx[k]][c]],
      fill_value |-> 0]

AsSparse(df) ==
  [columns |-> df.columns,
   arrays |-> [c \in 1..NColsOf(df) |-> SparseArray(df, c)],
   shape |-> <<NRowsOf(df), NColsOf(df)>>]

\* Variant of to_coo that keeps the pattern of the entries, not their values.
ToCooPattern(sdf) ==
  LET n == Len(sdf.arrays)
  IN [shape |-> sdf.shape,
      row |-> Concat([c \in 1..n |-> sdf.arrays[c].sp_index]),
      col |-> Concat([c \in 1..n |->
                        [k \in 1..Len(sdf.arrays[c].sp_index) |-> c]]),
      data |-> Concat([c \in 1..n |->
                         [k \in 1..Len(sdf.arrays[c].sp_index) |-> 1]])]

\* .sparse.to_coo(): column by column, the stored entries with their row and
\* column positions (1-based here), and the shape of the table.
ToCoo(sdf) ==
  LET n == Len(sdf.arrays)
  IN [shape |-> sdf.shape,
      row |-> Concat([c \in 1..n |-> sdf.arrays[c].sp_index]),
      col |-> Concat([c \in 1..n |->
                        [k \in 1..Len(sdf.arrays[c].sp_index) |-> c]]),
      data |-> Concat([c \in 1..n |-> sdf.arrays[c].sp_values])]

Sparsify(df) == ToCoo(AsSparse(df))

\* The dense reading of a coordinate matrix: absent entries are 0 and the
\* entries stored at one position add up.
CooCell(coo, r, c) ==
  SumSeq([k \in 1..Len(coo.data) |->
            IF coo.row[k] = r /\ coo.col[k] = c THEN coo.data[k] ELSE 0])

Densify(coo) ==
  [r \in 1..coo.shape[1] |-> [c \in 1..coo.shape[2] |-> CooCell(coo, r, c)]]

\* --------------------------------------- cell eb75a8a2: the label binarizer
\* (y == 'Fatal').astype('int').cm_highestinjury
\* Variants of the comparison that a looser match would give.
EqualsFatalAnyCase(frame) ==
  [columns |-> frame.columns,
   values |-> [r \in 1..Len(frame.values) |-> frame.values[r] \in {"Fatal", "fatal"}]]

EqualsFatalStripped(frame) ==
  [columns |-> frame.columns,
   values |-> [r \in 1..Len(frame.values) |-> frame.values[r] \in {"Fatal", "Fatal "}]]

EqualsFatal(frame) ==
  [columns |-> frame.columns,
   values |-> [r \in 1..Len(frame.values) |-> frame.values[r] = FatalLabel]]

AsTypeInt(frame) ==
  [columns |-> frame.columns,
   values |-> [r \in 1..Len(frame.values) |->
                 IF frame.values[r] THEN 1 ELSE 0]]

HasLabelColumn(frame) == LabelColumn \in Range(frame.columns)

Binarize(frame) == AsTypeInt(EqualsFatal(frame)).values

\* ----------------------------------------- cell c1694fef: the baseline
\* value_counts(normalize=True): for each value that occurs, its share of the
\* rows, as <<count, rows>>.
ValueCounts(y) == [v \in Range(y) |-> <<Count(y, v), Len(y)>>]

\* [0] looks the label 0 up in the index of the counts; KeyError without it.
BaselineDefined(y) == 0 \in DOMAIN ValueCounts(y)
BaselineValue(y) == ValueCounts(y)[0]

\* ------------------------------------------------ the solver as an oracle
\* What liblinear returns is not computed here: a learner is a description of
\* the outcomes of one training set.  hi: the grid points of the higher score
\* level; spread: a grid point whose fold scores differ around the same mean;
\* jit: an l1 grid point whose score depends on the seed (coordinate descent
\* permutes at random); nonconv: a grid point whose solver stops at max_iter
\* (ConvergenceWarning); wmode, wk, tie: the shape of the fitted weights.
Learner(hi, spread, jit, nonconv, wmode, wk, tie) ==
  [hi |-> hi, spread |-> spread, jit |-> jit, nonconv |-> nonconv,
   wmode |-> wmode, wk |-> wk, tie |-> tie]

Seeds(L) == IF L.jit = 0 THEN {1} ELSE {1, 2}

\* Correct predictions on the held-out fold f, of a fold of fixed size.
FoldScore(L, sd, c, f) ==
  (IF c \in L.hi THEN 3 ELSE 2)
  + (IF c = L.spread THEN (IF f = 1 THEN 1 ELSE IF f = 2 THEN -1 ELSE 0) ELSE 0)
  + (IF c = L.jit /\ sd = 2 /\ f = 1 THEN 2 ELSE 0)

FittedWeight(L, c, j, n) ==
  IF L.wmode = "mod" THEN ((c * j + L.wk) % 3) - 1
  ELSE LET jj == IF j = L.tie[2] THEN L.tie[1] ELSE j
           ramp == IF L.wmode = "up" THEN jj ELSE n + 1 - jj
       IN ramp - (n \div 2) + (c % 3)

\* LogisticRegression(solver='liblinear', **params).fit(X, y): one weight per
\* column of X and an intercept.
Fit(L, sd, c, X, y) ==
  [params |-> ParameterGrid[c],
   coef_ |-> [j \in 1..X.shape[2] |-> FittedWeight(L, c, j, X.shape[2])],
   intercept_ |-> 0 - (c % 2),
   n_features_in_ |-> X.shape[2],
   converged |-> c # L.nonconv]

\* The solver needs samples of at least two classes.
CanFit(y) == Cardinality(Range(y)) >= 2

\* -------------------------------- cell 42f0b231: grid search and scoring
\* One grid point's cross-validation: a fit and a score per fold.  A fit that
\* raises scores error_score (nan) with a warning.
CrossValidate(L, sd, c, y) ==
  IF CanFit(y)
  THEN [params |-> ParameterGrid[c], error |-> FALSE,
        split_test_score |-> [f \in 1..NFolds |-> FoldScore(L, sd, c, f)],
        converged |-> c # L.nonconv]
  ELSE [params |-> ParameterGrid[c], error |-> TRUE,
        split_test_score |-> <<>>, converged |-> TRUE]

\* The mean over the folds, as its numerator over NFolds.
MeanTestScore(res) == SumSeq(res.split_test_score)

MeanScores(cv) == [c \in DOMAIN cv |-> MeanTestScore(cv[c])]

\* rankdata(-means, method='min')
RankTestScore(means) ==
  [c \in DOMAIN means |->
     1 + Cardinality({d \in DOMAIN means : means[d] > means[c]})]

\* Variants of the selection: the last rank instead of the first; the grid
\* point that finished first among those of rank 1; the first of rank 1 among
\* the grid points whose solver converged.
BestIndexArgmax(means) ==
  LET rank == RankTestScore(means)
      worst == CHOOSE x \in Range(rank) : \A y \in Range(rank) : x >= y
  IN SetMin({c \in DOMAIN means : rank[c] = worst})

BestIndexFirstDone(means) ==
  LET rank == RankTestScore(means)
      best == SetMin({rank[c] : c \in DOMAIN means})
  IN IF first_done \in DOMAIN means /\ rank[first_done] = best
     THEN first_done
     ELSE SetMin({c \in DOMAIN means : rank[c] = best})

BestIndexConverged(means) ==
  LET ok == {c \in DOMAIN means : cv_results_[c].converged}
      best == CHOOSE c \in ok : \A d \in ok : means[c] >= means[d]
  IN SetMin({c \in ok : means[c] = means[best]})

\* best_index_ = rank_test_score.argmin(): the first grid point of rank 1.
BestIndex(means) ==
  LET rank == RankTestScore(means)
      best == SetMin({rank[c] : c \in DOMAIN means})
  IN SetMin({c \in DOMAIN means : rank[c] = best})

\* predict: the sign of the decision function, read off the sparse entries.
Decision(est, X, r) ==
  est.intercept_
  + SumSeq([k \in 1..Len(X.data) |->
              IF X.row[k] = r THEN X.data[k] * est.coef_[X.col[k]] ELSE 0])

CanPredict(est, X) == X.shape[2] = est.n_features_in_

Predict(est, X) ==
  [r \in 1..X.shape[1] |-> IF Decision(est, X, r) > 0 THEN 1 ELSE 0]

\* score: the accuracy, as <<correct, rows>>.
Score(est, X, y) ==
  LET p == Predict(est, X)
  IN <<Cardinality({r \in DOMAIN p : p[r] = y[r]}), Len(p)>>

\* ------------------------------------- cell e790cc99: the weight inspector
\* pd.DataFrame(coef_[0], index=columns), its column named 'Weight'.
WeightFrame(est, df) == [index |-> df.columns, Weight |-> est.coef_]

RECURSIVE Perms(_)
Perms(S) ==
  IF S = {} THEN {<<>>}
  ELSE UNION {{<<x>> \o p : p \in Perms(S \ {x})} : x \in S}

RECURSIVE TieOrders(_, _)
TieOrders(w, left) ==
  IF left = {} THEN {<<>>}
  ELSE LET top == CHOOSE x \in left : \A y \in left : w[x] >= w[y]
           grp == {x \in left : w[x] = w[top]}
       IN {p \o q : p \in Perms(grp), q \in TieOrders(w, left \ grp)}

Reverse(p) == [k \in 1..Len(p) |-> p[Len(p) + 1 - k]]

\* Variant of the sort with ascending=True.
SortOrdersAscending(w) == {Reverse(p) : p \in TieOrders(w, DOMAIN w)}

\* sort_values('Weight', ascending=False) with the default kind='quicksort',
\* which is not a stable sort: the rows in descending order of weight, the
\* rows of equal weight in any order.
SortOrders(w) == TieOrders(w, DOMAIN w)

\* Variant of the display that sorts the weights and leaves the names behind.
HeadRowsUnsortedNames(wf, perm, n) ==
  LET m == IF Len(perm) < n THEN Len(perm) ELSE n
  IN [k \in 1..m |-> [name |-> wf.index[k], Weight |-> wf.Weight[perm[k]]]]

\* .head(30) of the rows taken in the order perm.
HeadRows(wf, perm, n) ==
  LET m == IF Len(perm) < n THEN Len(perm) ELSE n
  IN [k \in 1..m |-> [name |-> wf.index[perm[k]], Weight |-> wf.Weight[perm[k]]]]

\* ------------------------------------------------------ the input artifacts
BaseValues(m, n) == [r \in 1..m |-> [c \in 1..n |-> (r * c) % 3]]
BaseTable(n) == DataFrame(ColumnNames(n), BaseValues(MaxRows, n), "float64")

LabelFrame(v) == [columns |-> <<LabelColumn>>, values |-> v]
BaseLabels ==
  LabelFrame([r \in 1..MaxRows |-> IF r % 2 = 1 THEN "Fatal" ELSE "Minor"])

BaseDisk ==
  [present |-> FileNames, train |-> BaseTable(MaxCols), test |-> BaseTable(MaxCols),
   train_severity |-> BaseLabels, test_severity |-> BaseLabels]

\* Mostly-zero tables: at most MaxNnz cells hold a non-zero score.
SmallTables ==
  LET cells == (1..MaxRows) \X (1..MaxCols)
      supports == {S \in SUBSET cells : Cardinality(S) <= MaxNnz}
  IN {DataFrame(ColumnNames(MaxCols),
                [r \in 1..MaxRows |-> [c \in 1..MaxCols |->
                   IF <<r, c>> \in DOMAIN f THEN f[<<r, c>>] ELSE 0]],
                "float64") : f \in UNION {[S -> {1, 2}] : S \in supports}}

LabelFrames == {LabelFrame(v) : v \in [1..MaxRows -> LabelValues]}

\* Artifacts that make some cell raise.
BrokenDisks ==
  {[BaseDisk EXCEPT !.present = FileNames \ {f}] : f \in FileNames}
  \cup {[BaseDisk EXCEPT !.train.dtype = "object"],
        [BaseDisk EXCEPT !.test.dtype = "object"],
        [BaseDisk EXCEPT !.train_severity.columns = <<"severity">>],
        [BaseDisk EXCEPT !.test_severity.columns = <<"severity">>],
        [BaseDisk EXCEPT !.test = BaseTable(MaxCols + 1)]}

Disks ==
  {[BaseDisk EXCEPT !.test_severity = f] : f \in LabelFrames}
  \cup {[BaseDisk EXCEPT !.train_severity = f] : f \in LabelFrames}
  \cup {[BaseDisk EXCEPT !.train = t] : t \in SmallTables}
  \cup {[BaseDisk EXCEPT !.test = t] : t \in SmallTables}
  \cup BrokenDisks

Learners == {Learner(hi, 0, 0, 0, "mod", wk, <<0, 0>>) : hi \in {{}, {4}}, wk \in {0, 1}}

\* ----------------------------------------------------------- initial state
Unset == [unset |-> TRUE]
NoError == [cell |-> "", exc |-> ""]
NoResults == [c \in {} |-> Unset]

Fresh ==
  /\ pc = "load" /\ error = NoError
  /\ seed = 0
  /\ X_train_tfidf = Unset /\ X_test_tfidf = Unset
  /\ y_train = Unset /\ y_test = Unset
  /\ X_train_sparse = Unset /\ X_test_sparse = Unset
  /\ next_task = 1 /\ running = {} /\ cv_results_ = NoResults
  /\ first_done = 0 /\ logreg_grid = Unset /\ warned = {}
  /\ out = <<>>

InitOf(D, L, N) ==
  /\ disk \in D /\ learner \in L /\ cpus \in N
  /\ run = 1 /\ prev = [run |-> 0]
  /\ Fresh

Init == InitOf(Disks, Learners, {1})

\* ------------------------------------------------------------------ cells
\* Variant of a failure that starts the run over.
FailRetry(cell, exc) == pc' = "load" /\ error' = [cell |-> cell, exc |-> exc]

\* An exception nobody catches: the run stops in the cell that raised.
Fail(cell, exc) == pc' = "failed" /\ error' = [cell |-> cell, exc |-> exc]

\* Cell 46f38022: four read_pickle calls in order; the first missing file
\* raises and leaves the later names unassigned.
FileOrder == <<"train", "test", "train_severity", "test_severity">>
ReadUpTo ==
  LET missing == {i \in 1..Len(FileOrder) : FileOrder[i] \notin disk.present}
  IN IF missing = {} THEN Len(FileOrder) ELSE SetMin(missing) - 1

Load ==
  /\ pc = "load"
  /\ seed' \in Seeds(learner)
  /\ X_train_tfidf' = IF ReadUpTo >= 1 THEN disk.train ELSE X_train_tfidf
  /\ X_test_tfidf' = IF ReadUpTo >= 2 THEN disk.test ELSE X_test_tfidf
  /\ y_train' = IF ReadUpTo >= 3 THEN disk.train_severity ELSE y_train
  /\ y_test' = IF ReadUpTo >= 4 THEN disk.test_severity ELSE y_test
  /\ IF ReadUpTo = Len(FileOrder)
     THEN pc' = "sparsify" /\ UNCHANGED error
     ELSE Fail("load", "FileNotFoundError")
  /\ UNCHANGED <<inputVars, run, prev, sparseVars, gridVars, out>>

\* Cell 4699ff20.
SparsifyCell ==
  /\ pc = "sparsify"
  /\ IF ~CanSparsify(X_train_tfidf)
     THEN Fail("sparsify", "ValueError") /\ UNCHANGED sparseVars
     ELSE /\ X_train_sparse' = Sparsify(X_train_tfidf)
          /\ IF ~CanSparsify(X_test_tfidf)
             THEN Fail("sparsify", "ValueError") /\ UNCHANGED X_test_sparse
             ELSE /\ X_test_sparse' = Sparsify(X_test_tfidf)
                  /\ pc' = "binarize" /\ UNCHANGED error
  /\ UNCHANGED <<inputVars, run, prev, seed, dataVars, gridVars, out>>

\* Cell eb75a8a2: each name is rebound to the integer column of its frame.
Series(frame) == [name |-> LabelColumn, values |-> Binarize(frame)]

BinarizeCell ==
  /\ pc = "binarize"
  /\ IF ~HasLabelColumn(y_train)
     THEN Fail("binarize", "AttributeError") /\ UNCHANGED <<y_train, y_test>>
     ELSE /\ y_train' = Series(y_train)
          /\ IF ~HasLabelColumn(y_test)
             THEN Fail("binarize", "AttributeError") /\ UNCHANGED y_test
             ELSE y_test' = Series(y_test) /\ pc' = "baseline" /\ UNCHANGED error
  /\ UNCHANGED <<inputVars, run, prev, seed, X_train_tfidf, X_test_tfidf,
                 sparseVars, gridVars, out>>

\* Cell c1694fef.
BaselineCell ==
  /\ pc = "baseline"
  /\ IF BaselineDefined(y_test.values)
     THEN /\ out' = Append(out, [kind |-> "baseline",
                                 value |-> BaselineValue(y_test.values)])
          /\ pc' = "gridsearch" /\ UNCHANGED error
     ELSE Fail("baseline", "KeyError") /\ UNCHANGED out
  /\ UNCHANGED <<inputVars, run, prev, seed, dataVars, sparseVars, gridVars>>

\* Cell 42f0b231, logreg_grid.fit: the grid points are handed to the workers
\* in grid order, one per worker to begin with, ...
GridDispatch ==
  /\ pc = "gridsearch"
  /\ next_task = 1
  /\ LET n == IF cpus < NGrid THEN cpus ELSE NGrid
     IN running' = 1..n /\ next_task' = n + 1
  /\ UNCHANGED <<inputVars, run, prev, pc, error, seed, dataVars, sparseVars,
                 cv_results_, first_done, logreg_grid, warned, out>>

\* ... they finish in any order, each result kept at its grid position, and
\* the worker that finished takes the next grid point, ...
GridComplete(c) ==
  /\ pc = "gridsearch"
  /\ c \in running
  /\ LET res == CrossValidate(learner, seed, c, y_train.values)
     IN /\ cv_results_' = [d \in DOMAIN cv_results_ \cup {c} |->
                             IF d = c THEN res ELSE cv_results_[d]]
        /\ warned' = IF res.converged THEN warned ELSE warned \cup {c}
  /\ IF next_task <= NGrid
     THEN running' = (running \ {c}) \cup {next_task} /\ next_task' = next_task + 1
     ELSE running' = running \ {c} /\ UNCHANGED next_task
  /\ first_done' = IF first_done = 0 THEN c ELSE first_done
  /\ UNCHANGED <<inputVars, run, prev, pc, error, seed, dataVars, sparseVars,
                 logreg_grid, out>>

\* ... and once all are in, the best one is refit on the whole training set
\* (refit=True).  With every fit failed, fit raises.
GridSelect ==
  /\ pc = "gridsearch"
  /\ next_task > NGrid /\ running = {}
  /\ IF \A c \in DOMAIN cv_results_ : cv_results_[c].error
     THEN Fail("gridsearch", "ValueError") /\ UNCHANGED logreg_grid
     ELSE LET best == BestIndex(MeanScores(cv_results_))
          IN /\ logreg_grid' =
                  [best_index_ |-> best,
                   best_params_ |-> cv_results_[best].params,
                   best_estimator_ |->
                     Fit(learner, seed, best, X_train_sparse, y_train.values)]
             /\ pc' = "score_train" /\ UNCHANGED error
  /\ UNCHANGED <<inputVars, run, prev, seed, dataVars, sparseVars, next_task,
                 running, cv_results_, first_done, warned, out>>

\* The two prints of the cell.
ScoreTrain ==
  /\ pc = "score_train"
  /\ out' = Append(out, [kind |-> "train_accuracy",
                         value |-> Score(logreg_grid.best_estimator_,
                                         X_train_sparse, y_train.values)])
  /\ pc' = "score_test"
  /\ UNCHANGED <<inputVars, run, prev, error, seed, dataVars, sparseVars, gridVars>>

ScoreTest ==
  /\ pc = "score_test"
  /\ IF CanPredict(logreg_grid.best_estimator_, X_test_sparse)
     THEN /\ out' = Append(out, [kind |-> "test_accuracy",
                                 value |-> Score(logreg_grid.best_estimator_,
                                                 X_test_sparse, y_test.values)])
          /\ pc' = "weights" /\ UNCHANGED error
     ELSE Fail("score_test", "ValueError") /\ UNCHANGED out
  /\ UNCHANGED <<inputVars, run, prev, seed, dataVars, sparseVars, gridVars>>

\* Cell e790cc99.
WeightsCell ==
  /\ pc = "weights"
  /\ LET wf == WeightFrame(logreg_grid.best_estimator_, X_train_tfidf)
     IN \E perm \in SortOrders(wf.Weight) :
          out' = Append(out, [kind |-> "weights",
                              value |-> HeadRows(wf, perm, HeadN)])
  /\ pc' = "done"
  /\ UNCHANGED <<inputVars, run, prev, error, seed, dataVars, sparseVars, gridVars>>

\* Running the notebook again, from a fresh kernel, on the same artifacts.
Restart ==
  /\ pc \in {"done", "failed"}
  /\ run < MaxRuns
  /\ run' = run + 1
  /\ prev' = [run |-> run, seed |-> seed, pc |-> pc, out |-> out,
              best_index_ |-> IF pc = "done" THEN logreg_grid.best_index_ ELSE 0,
              first_done |-> first_done]
  /\ pc' = "load" /\ error' = NoError
  /\ seed' = 0
  /\ X_train_tfidf' = Unset /\ X_test_tfidf' = Unset
  /\ y_train' = Unset /\ y_test' = Unset
  /\ X_train_sparse' = Unset /\ X_test_sparse' = Unset
  /\ next_task' = 1 /\ running' = {} /\ cv_results_' = NoResults
  /\ first_done' = 0 /\ logreg_grid' = Unset /\ warned' = {}
  /\ out' = <<>>
  /\ UNCHANGED inputVars

\* One run of the notebook.
NextRun ==
  \/ Load
  \/ SparsifyCell
  \/ BinarizeCell
  \/ BaselineCell
  \/ GridDispatch
  \/ \E c \in Cands : GridComplete(c)
  \/ GridSelect
  \/ ScoreTrain
  \/ ScoreTest
  \/ WeightsCell

Next == NextRun \/ Restart

Spec == Init /\ [][NextRun]_vars

\* ------------------------------------------ the grid search, run and rerun
Profiles ==
  { <<0, 0, 0>>, <<2, 0, 0>>, <<0, 3, 0>>, <<0, 0, 1>>, <<0, 0, 2>> }

\* The grid points that may score higher: the first two, which the workers
\* begin with, one behind them and the last.
HiCands == {1, 2, 5, NGrid}

GridLearners ==
  {Learner(hi, p[1], p[2], p[3], "mod", 0, <<0, 0>>) :
     hi \in {S \in SUBSET HiCands : Cardinality(S) <= MaxHi}, p \in Profiles}

InitGrid == InitOf({BaseDisk}, GridLearners, {NWorkers})

SpecGrid == InitGrid /\ [][Next]_vars

\* ------------------------------------------------- the wide feature table
WideTable(n) ==
  DataFrame(ColumnNames(n),
            [r \in 1..MaxRows |-> [c \in 1..n |-> IF (r + c) % 7 = 0 THEN 1 ELSE 0]],
            "float64")

WideDisk == [BaseDisk EXCEPT !.train = WideTable(WideCols), !.test = WideTable(WideCols)]

WeightLearners ==
  {Learner({}, 0, 0, 0, m, 0, <<p, p + 1>>) :
     m \in {"up", "down"}, p \in 0..(WideCols - 1)}

InitWeights == InitOf({WideDisk, BaseDisk}, WeightLearners, {1})

SpecWeights == InitWeights /\ [][NextRun]_vars

\* ------------------------------------------------------------ properties
IsFrame(v) == "columns" \in DOMAIN v
IsSeries(v) == "name" \in DOMAIN v
IsCoo(v) == "shape" \in DOMAIN v
IsFitted == "best_index_" \in DOMAIN logreg_grid

\* Each label vector with the artifact it was read from, and each sparse
\* matrix with its table.
LabelPairs == << <<y_train, disk.train_severity>>, <<y_test, disk.test_severity>> >>
TablePairs == << <<X_train_sparse, X_train_tfidf>>, <<X_test_sparse, X_test_tfidf>> >>

Kinds(o) == [k \in 1..Len(o) |-> o[k].kind]
Max(a, b) == IF a >= b THEN a ELSE b
Min(a, b) == IF a <= b THEN a ELSE b
Mean(c) == SumSeq(cv_results_[c].split_test_score)
ColumnOf(name) == CHOOSE i \in 1..NColsOf(X_train_tfidf) : X_train_tfidf.columns[i] = name
Displayed == out[Len(out)].value

\* C1: each binarized label vector (train and test) has the length of the
\* original, holds only 0 and 1, holds 1 exactly at the rows whose original
\* value is the string 'Fatal', and so has as many 1s as the original has
\* rows equal to 'Fatal'.
BinarizerIndicator_C1 ==
  \A i \in 1..2 :
    LET y == LabelPairs[i][1]
        orig == LabelPairs[i][2].values
    IN IsSeries(y) =>
         /\ Len(y.values) = Len(orig)
         /\ \A r \in 1..Len(orig) :
              /\ y.values[r] \in {0, 1}
              /\ (y.values[r] = 1) <=> (orig[r] = "Fatal")
         /\ Count(y.values, 1) = Count(orig, "Fatal")

\* A test vector holding a 'Fatal', a near miss of it and another category
\* has been binarized.
Witness_C1 ==
  /\ IsSeries(y_test)
  /\ {0, 1} \subseteq Range(y_test.values)
  /\ {"Fatal", "fatal", "Minor"} \subseteq Range(disk.test_severity.values)

\* C2 (as claimed): once the baseline cell has run, the baseline accuracy it
\* printed is max(count of 0s, count of 1s) / rows of the binarized test
\* labels, also when 1 is the majority value and when there is no 0 at all.
BaselineIsMajority_C2 ==
  (IsSeries(y_test) /\ pc # "baseline") =>
    LET y == y_test.values
    IN /\ out # <<>>
       /\ out[1].kind = "baseline"
       /\ out[1].value = <<Max(Count(y, 0), Count(y, 1)), Len(y)>>

\* C3: each sparse coordinate matrix has the shape of its table and, read
\* densely, equals it cell for cell; every stored entry is a non-zero cell of
\* the table at its own row and column, and no position is stored twice.
SparsifierRoundTrip_C3 ==
  \A i \in 1..2 :
    LET X == TablePairs[i][1]
        df == TablePairs[i][2]
    IN IsCoo(X) =>
         /\ X.shape = <<NRowsOf(df), NColsOf(df)>>
         /\ Densify(X) = df.values
         /\ \A k \in 1..Len(X.data) :
              /\ X.data[k] # 0
              /\ df.values[X.row[k]][X.col[k]] = X.data[k]
         /\ \A k, l \in 1..Len(X.data) :
              (X.row[k] = X.row[l] /\ X.col[k] = X.col[l]) => k = l

\* A training table with several non-zero cells, one of them 2, and with
\* zero cells has been made sparse.
Witness_C3 ==
  /\ IsCoo(X_train_sparse)
  /\ Len(X_train_sparse.data) >= 2
  /\ 2 \in Range(X_train_sparse.data)
  /\ \E r \in 1..MaxRows : X_train_tfidf.values[r][1] = 0

\* C4: the grid is {l1, l2} x {0.01, 0.1, 1, 10, 100}, 10 points; once fit,
\* every grid point has been cross-validated, the selected point is a grid
\* point whose mean score is at least that of every other, and its refit on
\* the whole training set is the model behind the printed training accuracy,
\* the printed test accuracy and the displayed weights.
ModelSelection_C4 ==
  /\ NGrid = 10
  /\ Range(ParameterGrid) =
       {[C |-> c, penalty |-> q] : c \in {1, 10, 100, 1000, 10000}, q \in {"l1", "l2"}}
  /\ IsFitted =>
       LET best == logreg_grid.best_index_
           est == logreg_grid.best_estimator_
       IN /\ DOMAIN cv_results_ = Cands
          /\ \A c \in Cands :
               /\ cv_results_[c].params = ParameterGrid[c]
               /\ Len(cv_results_[c].split_test_score) = NFolds
               /\ Mean(best) >= Mean(c)
          /\ best \in Cands
          /\ logreg_grid.best_params_ = ParameterGrid[best]
          /\ est = Fit(learner, seed, best, X_train_sparse, y_train.values)
          /\ \A k \in 1..Len(out) :
               /\ out[k].kind = "train_accuracy" =>
                    out[k].value = Score(est, X_train_sparse, y_train.values)
               /\ out[k].kind = "test_accuracy" =>
                    out[k].value = Score(est, X_test_sparse, y_test.values)
               /\ out[k].kind = "weights" =>
                    \A j \in 1..Len(out[k].value) :
                      out[k].value[j].Weight = est.coef_[ColumnOf(out[k].value[j].name)]

\* A run has finished whose selected grid point is not the first of the grid
\* and beats some other grid point.
Witness_C4 ==
  /\ pc = "done" /\ IsFitted
  /\ logreg_grid.best_index_ # 1
  /\ \E c \in Cands : Mean(c) < Mean(logreg_grid.best_index_)

\* C5 (as claimed): the displayed rows are in descending order of weight and
\* rows of equal weight are in the column order of the training table.
StableDescending_C5 ==
  pc = "done" =>
    \A k, l \in 1..Len(Displayed) :
      k < l =>
        \/ Displayed[k].Weight > Displayed[l].Weight
        \/ /\ Displayed[k].Weight = Displayed[l].Weight
           /\ ColumnOf(Displayed[k].name) < ColumnOf(Displayed[l].name)

\* C5 (amended): the displayed table holds min(30, number of features) rows,
\* each a distinct feature with its own weight, in non-increasing order of
\* weight, and no feature left out has a weight above a displayed one.
TopWeights_C5 ==
  pc = "done" =>
    LET w == logreg_grid.best_estimator_.coef_
        shown == {ColumnOf(Displayed[k].name) : k \in 1..Len(Displayed)}
    IN /\ Len(Displayed) = Min(30, NColsOf(X_train_tfidf))
       /\ Cardinality(shown) = Len(Displayed)
       /\ \A k \in 1..Len(Displayed) :
            Displayed[k].Weight = w[ColumnOf(Displayed[k].name)]
       /\ \A k, l \in 1..Len(Displayed) :
            k < l => Displayed[k].Weight >= Displayed[l].Weight
       /\ \A i \in (1..NColsOf(X_train_tfidf)) \ shown :
            \A k \in 1..Len(Displayed) : w[i] <= Displayed[k].Weight

\* More than 30 features, two of them of equal weight among the 30 displayed.
Witness_C5 ==
  /\ pc = "done"
  /\ NColsOf(X_train_tfidf) > 30
  /\ Len(Displayed) = 30
  /\ \E k \in 1..29 : Displayed[k].Weight = Displayed[k + 1].Weight

SilentAllZero_C7 ==
  /\ \A i \in 1..2 :
       LET y == LabelPairs[i][1]
           orig == LabelPairs[i][2].values
       IN (IsSeries(y) /\ "Fatal" \notin Range(orig)) =>
            y.values = [r \in 1..Len(orig) |-> 0]
  /\ error.cell = "binarize" =>
       (~HasLabelColumn(disk.train_severity) \/ ~HasLabelColumn(disk.test_severity))
  /\ pc = "baseline" => (warned = {} /\ error = NoError)

\* A test vector of near misses only has been binarized and the run goes on.
Witness_C7 ==
  /\ pc = "baseline" /\ IsSeries(y_test)
  /\ "Fatal" \notin Range(disk.test_severity.values)
  /\ {"fatal", "Fatal "} \subseteq Range(disk.test_severity.values)

\* C8 (as claimed): the selected grid point is never one whose solver failed
\* to converge.
NonConvergedExcluded_C8 ==
  IsFitted => logreg_grid.best_index_ \notin warned

\* C8 (amended): a grid point whose solver fails to converge raises a warning
\* and no error, is scored on every fold like the others and stays eligible:
\* the selected grid point is the first of the highest mean score among all
\* grid points, converged or not.
NonConvergedEligible_C8 ==
  /\ warned \subseteq DOMAIN cv_results_
  /\ \A c \in DOMAIN cv_results_ :
       /\ (c \in warned) <=> ~cv_results_[c].converged
       /\ c \in warned =>
            (~cv_results_[c].error /\ Len(cv_results_[c].split_test_score) = NFolds)
  /\ warned # {} => error = NoError
  /\ IsFitted =>
       \A c \in Cands :
         \/ Mean(c) < Mean(logreg_grid.best_index_)
         \/ (Mean(c) = Mean(logreg_grid.best_index_) /\ logreg_grid.best_index_ <= c)

\* A run has finished whose selected grid point did not converge.
Witness_C8 ==
  /\ pc = "done" /\ IsFitted
  /\ logreg_grid.best_index_ \in warned

\* C9 (as claimed): a run in which some step fails has output nothing.
NoPartialOutput_C9 ==
  pc = "failed" => out = <<>>

\* C9 (amended): a failure stops the run for good (no later step, no retry),
\* and the run has output exactly what the steps before the failing one
\* output: nothing for a failure up to the baseline, the baseline for a
\* failure of the grid search, the baseline and the training accuracy for a
\* failure of the test scoring; what later steps assign stays unassigned.
FailStop_C9 ==
  /\ (error # NoError) <=> (pc = "failed")
  /\ pc = "failed" =>
       /\ ~ENABLED NextRun
       /\ error.cell \in {"load", "sparsify", "binarize", "baseline",
                          "gridsearch", "score_test"}
       /\ error.cell \in {"load", "sparsify", "binarize", "baseline"} =>
            (out = <<>> /\ cv_results_ = NoResults)
       /\ error.cell = "gridsearch" => Kinds(out) = <<"baseline">>
       /\ error.cell = "score_test" => Kinds(out) = <<"baseline", "train_accuracy">>
       /\ error.cell # "score_test" => logreg_grid = Unset
       /\ error.cell \in {"load", "sparsify"} => (~IsSeries(y_train) /\ ~IsSeries(y_test))
       /\ error.cell = "load" => (X_train_sparse = Unset /\ X_test_sparse = Unset)

\* The grid search failed after the baseline was printed.
Witness_C9 ==
  /\ pc = "failed" /\ error.cell = "gridsearch"
  /\ Kinds(out) = <<"baseline">>

\* C10: column i of the sparse training matrix carries column i of the
\* training table; the fitted model has one weight per column, the i-th being
\* the solver's weight of column i; and the weight displayed beside a feature
\* name is the weight of that feature's column.
WeightAlignment_C10 ==
  /\ IsCoo(X_train_sparse) =>
       /\ X_train_sparse.shape[2] = NColsOf(X_train_tfidf)
       /\ \A c \in 1..NColsOf(X_train_tfidf) :
            \A r \in 1..NRowsOf(X_train_tfidf) :
              CooCell(X_train_sparse, r, c) = X_train_tfidf.values[r][c]
  /\ IsFitted =>
       LET est == logreg_grid.best_estimator_
           n == NColsOf(X_train_tfidf)
       IN /\ Len(est.coef_) = n
          /\ \A i \in 1..n :
               est.coef_[i] = FittedWeight(learner, logreg_grid.best_index_, i, n)
  /\ pc = "done" =>
       \A k \in 1..Len(Displayed) :
         \E i \in 1..NColsOf(X_train_tfidf) :
           /\ X_train_tfidf.columns[i] = Displayed[k].name
           /\ Displayed[k].Weight = logreg_grid.best_estimator_.coef_[i]

\* A table has been displayed whose first row is not the first column, the
\* weights of the columns being distinct.
Witness_C10 ==
  /\ pc = "done"
  /\ Len(Displayed) >= 2
  /\ Displayed[1].name # X_train_tfidf.columns[1]
  /\ Displayed[1].Weight # Displayed[2].Weight

====
